---- MODULE Spec2Model ----
(***************************************************************************)
(* soundsproxy (src/main.rs): an HTTP relay that answers GET /<id> with an *)
(* RSS feed built from two upstream JSON resources.                        *)
(*                                                                         *)
(* One request is in progress at a time (requests share no state).  Text   *)
(* is modelled as a sequence of tokens: a path is a sequence of one-       *)
(* character strings, a URL or an error description a sequence of string   *)
(* pieces whose concatenation is the text.  A JSON body is a record whose  *)
(* fields are the JSON object's keys.  The XML document of a feed is       *)
(* modelled by its element tree (the rss crate's Channel).                 *)
(***************************************************************************)
EXTENDS Integers, Sequences, FiniteSets, TLC

VARIABLES
    pc,       \* where the request is: "idle", "router", "try_join", "responded"
    req,      \* the request being served
    id,       \* get_feed's show identifier
    fut,      \* the two futures try_join! holds: their await point and output
    net,      \* what the upstream connection of each call has delivered
    sent,     \* the URLs each call has sent a GET for, in order
    replies,  \* the results router has returned for this request
    renders,  \* how many times build_rss ran for this request
    woken     \* whether the request's task has been woken since its last poll

vars == <<pc, req, id, fut, net, sent, replies, renders, woken>>

\* ------------------------------------------------------------ bounds
\* longest show identifier (characters after the leading slash)
MaxIdLen == 2
\* longest episode list an upstream body carries
MaxEpisodes == 2

\* ------------------------------------------------------------ constants
OK == 200
BAD_GATEWAY == 502

Calls == {"info", "episodes"}

\* ------------------------------------------------------------ inputs
RECURSIVE SeqsUpTo(_, _)
SeqsUpTo(S, n) ==
    IF n = 0 THEN {<<>>}
    ELSE LET shorter == SeqsUpTo(S, n - 1)
         IN  shorter \cup {Append(s, x) : s \in {t \in shorter : Len(t) = n - 1}, x \in S}

Methods == {"GET", "POST"}

PathChars == {"a", "/"}

\* hyper's Uri::path() is never empty and starts with a slash
Paths == {<<"/">> \o s : s \in SeqsUpTo(PathChars, MaxIdLen)}

Requests == [method : Methods, path : Paths]

NoReq == [method |-> "", path |-> <<>>]

\* release.date strings, one character per element
DateThu == <<"2","0","2","1","-","0","3","-","0","4","T","0","5",":","0","6",":","0","7","+","0","0",":","0","0">>
DateSat == <<"2","0","2","0","-","0","2","-","2","9","T","2","3",":","5","9",":","5","9","+","0","1",":","0","0">>
DateZulu == <<"2","0","1","9","-","1","2","-","3","1","T","0","0",":","0","0",":","0","0","Z">>
DateNot == <<"n","o","t","-","a","-","d","a","t","e">>
DateBadMonth == <<"2","0","2","1","-","1","3","-","0","4","T","0","5",":","0","6",":","0","7","+","0","0",":","0","0">>
DateNoOffset == <<"2","0","2","1","-","0","3","-","0","4","T","0","5",":","0","6",":","0","7">>

Variant(rate, url, size, label) ==
    [bitrate |-> rate, file_url |-> url, file_size |-> size, label |-> label]

EpisodeJson(n, date, secs, lo, mid, hi) ==
    [titles |-> [primary |-> <<"Show">>, secondary |-> <<"Episode ", n>>],
     synopses |-> [short |-> <<"short ", n>>, medium |-> <<"medium ", n>>, long |-> <<"long ", n>>],
     image_url |-> <<"https://ichef.bbci.co.uk/images/ic/", "{recipe}", "/", n, ".jpg">>,
     duration |-> [value |-> secs, label |-> <<"label ", n>>],
     download |-> [type |-> <<"non-drm">>,
                   quality_variants |-> [low |-> lo, medium |-> mid, high |-> hi]],
     release |-> [date |-> date, label |-> <<"released ", n>>]]

Episode1 ==
    EpisodeJson("1", DateThu, 1805,
        Variant(48, <<"https://open.live.bbc.co.uk/", "1", "-low.mp3">>, 70, <<"Low">>),
        Variant(96, <<"https://open.live.bbc.co.uk/", "1", "-medium.mp3">>, 140, <<"Medium">>),
        Variant(128, <<"https://open.live.bbc.co.uk/", "1", "-high.mp3">>, 205, <<"High">>))

Episode2 ==
    EpisodeJson("2", DateNot, 3725,
        Variant(48, <<"https://open.live.bbc.co.uk/", "2", "-low.mp3">>, 9, <<"Low">>),
        Variant(96, <<"https://open.live.bbc.co.uk/", "2", "-medium.mp3">>, 1000, <<"Medium">>),
        Variant(128, <<"https://open.live.bbc.co.uk/", "2", "-high.mp3">>, 0, <<"High">>))

Episode3 ==
    EpisodeJson("3", DateSat, 59,
        Variant(48, <<"https://open.live.bbc.co.uk/", "3", "-low.mp3">>, 31, <<"Low">>),
        Variant(96, <<"https://open.live.bbc.co.uk/", "3", "-medium.mp3">>, 31, <<"Medium">>),
        Variant(128, <<"https://open.live.bbc.co.uk/", "3", "-high.mp3">>, 4096, <<"High">>))

Episode4 ==
    EpisodeJson("4", DateBadMonth, 0,
        Variant(48, <<"https://open.live.bbc.co.uk/", "4", "-low.mp3">>, 5, <<"Low">>),
        Variant(96, <<"https://open.live.bbc.co.uk/", "4", "-medium.mp3">>, 6, <<"Medium">>),
        Variant(128, <<"https://open.live.bbc.co.uk/", "4", "-high.mp3">>, 17, <<"High">>))

Episode5 ==
    EpisodeJson("5", DateZulu, 86400,
        Variant(48, <<"https://open.live.bbc.co.uk/", "5", "-low.mp3">>, 10, <<"Low">>),
        Variant(96, <<"https://open.live.bbc.co.uk/", "5", "-medium.mp3">>, 99, <<"Medium">>),
        Variant(128, <<"https://open.live.bbc.co.uk/", "5", "-high.mp3">>, 100, <<"High">>))

Episode6 ==
    EpisodeJson("6", DateNoOffset, 600,
        Variant(48, <<"https://open.live.bbc.co.uk/", "6", "-low.mp3">>, 1, <<"Low">>),
        Variant(96, <<"https://open.live.bbc.co.uk/", "6", "-medium.mp3">>, 2, <<"Medium">>),
        Variant(128, <<"https://open.live.bbc.co.uk/", "6", "-high.mp3">>, 3, <<"High">>))

EpisodeSamples == {Episode1, Episode2, Episode3, Episode4, Episode5, Episode6}

ContainerJson ==
    [titles |-> [primary |-> <<"Show">>, secondary |-> <<"Series">>],
     synopses |-> [short |-> <<"s">>, medium |-> <<"about the show">>, long |-> <<"l">>],
     image_url |-> <<"https://ichef.bbci.co.uk/images/ic/", "{recipe}", "/show.jpg">>]

\* a container body carrying a key the success shape does not name
ContainerJsonExtra ==
    [titles |-> [primary |-> <<"Other">>, secondary |-> <<"Series">>],
     synopses |-> [short |-> <<"s">>, medium |-> <<"another show">>, long |-> <<"l">>],
     image_url |-> <<"https://ichef.bbci.co.uk/images/ic/", "{recipe}", "/other.jpg">>,
     urn |-> <<"urn:bbc:radio:series">>]

UpstreamError(msg) ==
    [id |-> <<"not_found">>, href |-> <<"http://rms.api.bbc.co.uk/docs">>, status |-> 404,
     message |-> msg, replied_at |-> DateZulu]

FailureJson1 == [errors |-> <<UpstreamError(<<"Programme not found">>)>>]

FailureJson2 ==
    [errors |-> <<UpstreamError(<<"Resource unavailable">>), UpstreamError(<<"Programme not found">>)>>]

\* a body that is not JSON at all
GarbageBody == [not_json |-> <<"<html>">>]

EpisodesBodies == {[data |-> s] : s \in SeqsUpTo(EpisodeSamples, MaxEpisodes)}

ContainerBodies == {ContainerJson, ContainerJsonExtra}

FailureBodies == {FailureJson1, FailureJson2}

\* what the upstream may answer on each endpoint
Bodies(c) ==
    IF c = "info"
    THEN ContainerBodies \cup FailureBodies \cup {GarbageBody, [data |-> <<>>]}
    ELSE EpisodesBodies \cup FailureBodies \cup {GarbageBody, ContainerJson}

\* ------------------------------------------------------------ decoding
Pending == [tag |-> "pending"]

Ok(v) == [tag |-> "ok", val |-> v]

Err(e) == [tag |-> "err", err |-> e]

container_url(i) == <<"https://rms.api.bbc.co.uk/v2/programmes/">> \o i \o <<"/container">>

episodes_url(i) ==
    <<"https://rms.api.bbc.co.uk/v2/programmes/playable?container=">> \o i
        \o <<"&sort=sequential&type=episode&experience=domestic">>

UrlOf(c, i) == IF c = "info" THEN container_url(i) ELSE episodes_url(i)

\* serde's message for a body that is not of the wanted shape
DecodeCause(b) ==
    IF "not_json" \in DOMAIN b THEN <<"expected value at line 1 column 1">>
    ELSE <<"missing field">>

HasTitles(b) == "titles" \in DOMAIN b /\ {"primary", "secondary"} \subseteq DOMAIN b.titles

HasSynopses(b) ==
    "synopses" \in DOMAIN b /\ {"short", "medium", "long"} \subseteq DOMAIN b.synopses

\* Response::json::<PodContainer>: the derived Deserialize keeps the struct's
\* fields, ignores unknown keys and fails when a field is missing
DecodePodContainer(b) ==
    IF HasTitles(b) /\ HasSynopses(b) /\ "image_url" \in DOMAIN b
    THEN Ok([titles |-> [primary |-> b.titles.primary, secondary |-> b.titles.secondary],
             synopses |-> [short |-> b.synopses.short, medium |-> b.synopses.medium,
                           long |-> b.synopses.long],
             image_url |-> b.image_url])
    ELSE Err([kind |-> "decode", cause |-> DecodeCause(b), url |-> <<>>])

DecodePodEpisode(e) ==
    [titles |-> e.titles, synopses |-> e.synopses, image_url |-> e.image_url,
     duration |-> e.duration,
     download |-> [download_type |-> e.download.type,
                   quality_variants |-> e.download.quality_variants],
     release |-> e.release]

\* Response::json::<PodEpisodes>
DecodePodEpisodes(b) ==
    IF "data" \in DOMAIN b
    THEN Ok([data |-> [k \in DOMAIN b.data |-> DecodePodEpisode(b.data[k])]])
    ELSE Err([kind |-> "decode", cause |-> DecodeCause(b), url |-> <<>>])

Decode(c, b) == IF c = "info" THEN DecodePodContainer(b) ELSE DecodePodEpisodes(b)

\* reqwest::Error's Display
Display(e) ==
    CASE e.kind = "builder" -> <<"builder error">>
      [] e.kind = "request" -> <<"error sending request for url (">> \o e.url \o <<")">>
      [] e.kind = "body" -> <<"request or response body error">>
      [] e.kind = "decode" -> <<"error decoding response body: ">> \o e.cause

\* ------------------------------------------------------------ feed renderer
replace_img_url(input) ==
    [k \in DOMAIN input |-> IF input[k] = "{recipe}" THEN "288x288" ELSE input[k]]

Digits == <<"0", "1", "2", "3", "4", "5", "6", "7", "8", "9">>

IsDigit(ch) == \E d \in DOMAIN Digits : Digits[d] = ch

DigitVal(ch) == (CHOOSE d \in DOMAIN Digits : Digits[d] = ch) - 1

\* u32::to_string: the decimal digits, most significant first
RECURSIVE ToDecimal(_)
ToDecimal(n) ==
    IF n < 10 THEN <<Digits[n + 1]>>
    ELSE Append(ToDecimal(n \div 10), Digits[(n % 10) + 1])

AllDigits(s, from, to) == \A k \in from..to : IsDigit(s[k])

RECURSIVE Number(_, _, _)
Number(s, from, to) ==
    IF to < from THEN 0
    ELSE 10 * Number(s, from, to - 1) + DigitVal(s[to])

IsLeap(y) == (y % 4 = 0 /\ y % 100 # 0) \/ y % 400 = 0

DaysIn(y, m) ==
    IF m = 2 THEN (IF IsLeap(y) THEN 29 ELSE 28)
    ELSE IF m \in {4, 6, 9, 11} THEN 30 ELSE 31

NoDate == [ok |-> FALSE]

\* the numeric offset "+hh:mm" / "-hh:mm" or "Z", in minutes east of UTC
ParseOffset(z) ==
    IF z = <<"Z">> \/ z = <<"z">> THEN [ok |-> TRUE, east |-> 0]
    ELSE IF Len(z) = 6 /\ z[1] \in {"+", "-"} /\ AllDigits(z, 2, 3) /\ z[4] = ":"
            /\ AllDigits(z, 5, 6) /\ Number(z, 5, 6) < 60
         THEN [ok |-> TRUE,
               east |-> (IF z[1] = "-" THEN -1 ELSE 1) * (60 * Number(z, 2, 3) + Number(z, 5, 6))]
         ELSE NoDate

RECURSIVE SkipDigits(_)
SkipDigits(s) == IF s # <<>> /\ IsDigit(Head(s)) THEN SkipDigits(Tail(s)) ELSE s

\* an optional fraction of a second, which the RFC 2822 form does not show
SkipFraction(s) ==
    IF Len(s) >= 2 /\ s[1] = "." /\ IsDigit(s[2]) THEN SkipDigits(Tail(s)) ELSE s

\* DateTime::parse_from_rfc3339: yyyy-mm-ddThh:mm:ss[.f]offset
parse_from_rfc3339(s) ==
    IF Len(s) >= 20 /\ AllDigits(s, 1, 4) /\ s[5] = "-" /\ AllDigits(s, 6, 7) /\ s[8] = "-"
        /\ AllDigits(s, 9, 10) /\ s[11] \in {"T", "t"} /\ AllDigits(s, 12, 13) /\ s[14] = ":"
        /\ AllDigits(s, 15, 16) /\ s[17] = ":" /\ AllDigits(s, 18, 19)
    THEN LET y == Number(s, 1, 4)
             mo == Number(s, 6, 7)
             d == Number(s, 9, 10)
             h == Number(s, 12, 13)
             mi == Number(s, 15, 16)
             sec == Number(s, 18, 19)
             off == ParseOffset(SkipFraction(SubSeq(s, 20, Len(s))))
         IN  IF mo \in 1..12 /\ d >= 1 /\ d <= DaysIn(y, mo) /\ h < 24 /\ mi < 60 /\ sec <= 60
                 /\ off.ok
             THEN [ok |-> TRUE, year |-> y, month |-> mo, day |-> d, hour |-> h,
                   minute |-> mi, second |-> sec, east |-> off.east]
             ELSE NoDate
    ELSE NoDate

\* FixedOffset::east(0).timestamp(0, 0)
EpochUtc ==
    [ok |-> TRUE, year |-> 1970, month |-> 1, day |-> 1, hour |-> 0, minute |-> 0,
     second |-> 0, east |-> 0]

MonthShift == <<0, 3, 2, 5, 0, 3, 5, 1, 4, 6, 2, 4>>

WeekdayNames == <<"Sun", "Mon", "Tue", "Wed", "Thu", "Fri", "Sat">>

MonthNames ==
    <<"Jan", "Feb", "Mar", "Apr", "May", "Jun", "Jul", "Aug", "Sep", "Oct", "Nov", "Dec">>

Weekday(y, m, d) ==
    LET yy == IF m < 3 THEN y - 1 ELSE y
    IN  WeekdayNames[((yy + (yy \div 4) - (yy \div 100) + (yy \div 400) + MonthShift[m] + d) % 7) + 1]

\* DateTime<FixedOffset>::to_rfc2822: "Thu, 4 Mar 2021 05:06:07 +0000", by its parts
to_rfc2822(dt) ==
    [weekday |-> Weekday(dt.year, dt.month, dt.day), day |-> dt.day,
     month |-> MonthNames[dt.month], year |-> dt.year, hour |-> dt.hour,
     minute |-> dt.minute, second |-> dt.second,
     sign |-> IF dt.east < 0 THEN "-" ELSE "+",
     offset_hours |-> (IF dt.east < 0 THEN -dt.east ELSE dt.east) \div 60,
     offset_minutes |-> (IF dt.east < 0 THEN -dt.east ELSE dt.east) % 60]

\* the fallback instant taken as the first day of year 1 instead of the epoch
unwrap_or_min(parsed) ==
    IF parsed.ok THEN parsed
    ELSE [ok |-> TRUE, year |-> 1, month |-> 1, day |-> 1, hour |-> 0, minute |-> 0,
          second |-> 0, east |-> 0]

unwrap_or_epoch(parsed) == IF parsed.ok THEN parsed ELSE EpochUtc

pub_date(date) == to_rfc2822(unwrap_or_epoch(parse_from_rfc3339(date)))

\* Duration::new(secs, 0).hhmmss(): hours, minutes, seconds
hhmmss(secs) ==
    [hours |-> secs \div 3600, minutes |-> (secs % 3600) \div 60, seconds |-> secs % 60]

\* Enclosure taken from the medium variant
Enclosure_medium(e) ==
    [mime_type |-> <<"audio/mpeg">>,
     length |-> ToDecimal(e.download.quality_variants.medium.file_size),
     url |-> e.download.quality_variants.medium.file_url]

Enclosure(e) ==
    [mime_type |-> <<"audio/mpeg">>,
     length |-> ToDecimal(e.download.quality_variants.high.file_size),
     url |-> e.download.quality_variants.high.file_url]

ITunesItemExtension(e) ==
    [image |-> replace_img_url(e.image_url), duration |-> hhmmss(e.duration.value),
     subtitle |-> e.synopses.short]

Item(e) ==
    [title |-> e.titles.secondary, description |-> e.synopses.long,
     itunes_ext |-> ITunesItemExtension(e), enclosure |-> Enclosure(e),
     pub_date |-> pub_date(e.release.date)]

\* Items collected newest first
Items_reversed(data) == [k \in DOMAIN data |-> Item(data[Len(data) + 1 - k])]

Items(data) == [k \in DOMAIN data |-> Item(data[k])]

Namespaces ==
    {<<"itunes", "http://www.itunes.com/dtds/podcast-1.0.dtd">>,
     <<"content", "http://purl.org/rss/1.0/modules/content/">>}

build_rss(i, info, episodes) ==
    [namespaces |-> Namespaces,
     title |-> info.titles.primary,
     description |-> info.synopses.medium,
     itunes_ext |-> [author |-> "BBC", block |-> "Yes",
                     image |-> replace_img_url(info.image_url), complete |-> "No"],
     link |-> <<"https://www.bbc.co.uk/sounds/series/">> \o i,
     items |-> Items(episodes.data)]

\* ------------------------------------------------------------ dispatcher
NoBody == [tag |-> "none"]

NetIdle == [head |-> "none", body |-> NoBody]

Unpolled == [st |-> "unpolled", result |-> Pending]

\* `.json::<T>().await`: the body is read, then decoded
PollJson(c, i, n) ==
    IF n.body.tag = "none" THEN [st |-> "json", result |-> Pending, get |-> FALSE]
    ELSE IF n.body.tag = "err"
         THEN [st |-> "done", get |-> FALSE,
               result |-> Err([kind |-> "body", cause |-> <<>>, url |-> UrlOf(c, i)])]
         ELSE [st |-> "done", get |-> FALSE, result |-> Decode(c, n.body.json)]

\* PollSend with a failed send sent again instead of returned
PollSend_retry(c, i, n) ==
    IF n.head = "none" THEN [st |-> "send", result |-> Pending, get |-> FALSE]
    ELSE IF n.head = "err" THEN [st |-> "send", result |-> Pending, get |-> TRUE]
    ELSE PollJson(c, i, n)

\* `.send().await?`
PollSend(c, i, n) ==
    IF n.head = "none" THEN [st |-> "send", result |-> Pending, get |-> FALSE]
    ELSE IF n.head = "err"
         THEN [st |-> "done", get |-> FALSE,
               result |-> Err([kind |-> "request", cause |-> <<>>, url |-> UrlOf(c, i)])]
         ELSE PollJson(c, i, n)

\* one poll of get_pod_info / get_pod_episodes from await point f.st; `built`
\* is whether Client::builder().build() succeeds
PollFetch(c, i, f, n, built) ==
    CASE f.st = "unpolled" ->
            IF built THEN [st |-> "send", result |-> Pending, get |-> TRUE]
            ELSE [st |-> "done", get |-> FALSE,
                  result |-> Err([kind |-> "builder", cause |-> <<>>, url |-> <<>>])]
      [] f.st = "send" -> PollSend(c, i, n)
      [] f.st = "json" -> PollJson(c, i, n)
      [] OTHER -> [st |-> f.st, result |-> f.result, get |-> FALSE]

\* try_join with a failed episodes call taken for an empty episode list
try_join_lenient(r1, r2) ==
    IF r1.tag = "err" THEN Err(r1.err)
    ELSE IF r1.tag = "ok" /\ r2.tag = "err" THEN Ok(<<r1.val, [data |-> <<>>]>>)
    ELSE IF r1.tag = "ok" /\ r2.tag = "ok" THEN Ok(<<r1.val, r2.val>>)
    ELSE Pending

\* what try_join! makes of the outputs of its two futures after polling them
try_join(r1, r2) ==
    IF r1.tag = "err" THEN Err(r1.err)
    ELSE IF r2.tag = "err" THEN Err(r2.err)
    ELSE IF r1.tag = "ok" /\ r2.tag = "ok" THEN Ok(<<r1.val, r2.val>>)
    ELSE Pending

\* try_join! polls its futures in order and returns at the first error: the
\* second future is not polled once the first has failed
second_is_polled(a1) == a1.result.tag # "err"

Greeting == [status |-> OK, headers |-> {}, body |-> [text |-> <<"Hello, World">>]]

feed_content_type == <<"content-type", "application/xml">>

\* get_feed's match on the joined result
feed_response(i, joined) ==
    IF joined.tag = "ok"
    THEN [status |-> OK, headers |-> {feed_content_type},
          body |-> [xml |-> build_rss(i, joined.val[1], joined.val[2])]]
    ELSE [status |-> BAD_GATEWAY, headers |-> {},
          body |-> [text |-> Display(joined.err)]]

\* `path[1..]`
strip_leading(path) == SubSeq(path, 2, Len(path))

\* router_arm matching on the path alone
router_arm_any_method(method, path) ==
    IF path = <<"/">> THEN "hello" ELSE "get_feed"

\* router's match on (method, path)
router_arm(method, path) ==
    IF method = "GET" /\ path = <<"/">> THEN "hello"
    ELSE IF method = "GET" THEN "get_feed"
    ELSE "fallback"

Init ==
    /\ pc = "idle"
    /\ req = NoReq
    /\ id = <<>>
    /\ fut = [c \in Calls |-> Unpolled]
    /\ net = [c \in Calls |-> NetIdle]
    /\ sent = [c \in Calls |-> <<>>]
    /\ replies = <<>>
    /\ renders = 0
    /\ woken = FALSE

\* hyper hands a request to the service; nothing of an earlier request remains
Request(r) ==
    /\ pc \in {"idle", "responded"}
    /\ pc' = "router"
    /\ req' = r
    /\ id' = <<>>
    /\ fut' = [c \in Calls |-> Unpolled]
    /\ net' = [c \in Calls |-> NetIdle]
    /\ sent' = [c \in Calls |-> <<>>]
    /\ replies' = <<>>
    /\ renders' = 0
    /\ woken' = FALSE

RouterHello ==
    /\ pc = "router"
    /\ router_arm(req.method, req.path) = "hello"
    /\ replies' = Append(replies, Ok(Greeting))
    /\ pc' = "responded"
    /\ UNCHANGED <<req, id, fut, net, sent, renders, woken>>

RouterFallback ==
    /\ pc = "router"
    /\ router_arm(req.method, req.path) = "fallback"
    /\ replies' = Append(replies, Ok(Greeting))
    /\ pc' = "responded"
    /\ UNCHANGED <<req, id, fut, net, sent, renders, woken>>

\* get_feed up to its try_join!
RouterGetFeed ==
    /\ pc = "router"
    /\ router_arm(req.method, req.path) = "get_feed"
    /\ id' = strip_leading(req.path)
    /\ pc' = "try_join"
    /\ woken' = TRUE
    /\ UNCHANGED <<req, fut, net, sent, replies, renders>>

Strip(a) == [st |-> a.st, result |-> a.result]

\* a future that has not finished when try_join! returns is dropped
Drop(f) == IF f.st = "done" THEN f ELSE [st |-> "dropped", result |-> f.result]

\* one poll of get_feed: try_join! polls get_pod_info, then get_pod_episodes;
\* when it is ready the match builds the response and router returns it
Poll ==
    /\ pc = "try_join"
    /\ woken
    /\ \E built \in [Calls -> BOOLEAN] :
        LET a1 == PollFetch("info", id, fut["info"], net["info"], built["info"])
            a2 == IF second_is_polled(a1)
                  THEN PollFetch("episodes", id, fut["episodes"], net["episodes"],
                                 built["episodes"])
                  ELSE [st |-> fut["episodes"].st, result |-> fut["episodes"].result,
                        get |-> FALSE]
            joined == try_join(a1.result, a2.result)
        IN  /\ sent' = [sent EXCEPT
                  !["info"] = IF a1.get THEN Append(@, container_url(id)) ELSE @,
                  !["episodes"] = IF a2.get THEN Append(@, episodes_url(id)) ELSE @]
            /\ IF joined.tag = "pending"
               THEN /\ fut' = [fut EXCEPT !["info"] = Strip(a1), !["episodes"] = Strip(a2)]
                    /\ woken' = FALSE
                    /\ UNCHANGED <<pc, replies, renders>>
               ELSE /\ fut' = [fut EXCEPT !["info"] = Drop(Strip(a1)),
                                          !["episodes"] = Drop(Strip(a2))]
                    /\ replies' = Append(replies, Ok(feed_response(id, joined)))
                    /\ renders' = IF joined.tag = "ok" THEN renders + 1 ELSE renders
                    /\ pc' = "responded"
                    /\ woken' = FALSE
    /\ UNCHANGED <<req, id, net>>

InFlight(c) == pc = "try_join" /\ fut[c].st \in {"send", "json"}

\* the connection fails, or times out, before a response head arrives
SendFails(c) ==
    /\ InFlight(c)
    /\ net[c].head = "none"
    /\ net' = [net EXCEPT ![c].head = "err"]
    /\ woken' = TRUE
    /\ UNCHANGED <<pc, req, id, fut, sent, replies, renders>>

HeadArrives(c) ==
    /\ InFlight(c)
    /\ net[c].head = "none"
    /\ net' = [net EXCEPT ![c].head = "ok"]
    /\ woken' = TRUE
    /\ UNCHANGED <<pc, req, id, fut, sent, replies, renders>>

BodyArrives(c, b) ==
    /\ InFlight(c)
    /\ net[c].head = "ok"
    /\ net[c].body.tag = "none"
    /\ net' = [net EXCEPT ![c].body = [tag |-> "bytes", json |-> b]]
    /\ woken' = TRUE
    /\ UNCHANGED <<pc, req, id, fut, sent, replies, renders>>

\* the connection breaks while the body is read
BodyFails(c) ==
    /\ InFlight(c)
    /\ net[c].head = "ok"
    /\ net[c].body.tag = "none"
    /\ net' = [net EXCEPT ![c].body = [tag |-> "err"]]
    /\ woken' = TRUE
    /\ UNCHANGED <<pc, req, id, fut, sent, replies, renders>>

Next ==
    \/ \E r \in Requests : Request(r)
    \/ RouterHello
    \/ RouterFallback
    \/ RouterGetFeed
    \/ Poll
    \/ \E c \in Calls : SendFails(c)
    \/ \E c \in Calls : HeadArrives(c)
    \/ \E c \in Calls : \E b \in Bodies(c) : BodyArrives(c, b)
    \/ \E c \in Calls : BodyFails(c)

Spec == Init /\ [][Next]_vars

\* ------------------------------------------------------------ properties
Responded == pc = "responded"

Resp == replies[1].val

IsFeedRequest == req.method = "GET" /\ req.path # <<"/">>

\* what the upstream did on call c, read off the connection
BodyArrived(c) == net[c].body.tag = "bytes"

IsSuccessShape(c, b) ==
    IF c = "info" THEN {"titles", "synopses", "image_url"} \subseteq DOMAIN b
    ELSE "data" \in DOMAIN b

IsFailureShape(b) == "errors" \in DOMAIN b

Success(c) == BodyArrived(c) /\ IsSuccessShape(c, net[c].body.json)

Failure(c) ==
    BodyArrived(c) /\ ~IsSuccessShape(c, net[c].body.json) /\ IsFailureShape(net[c].body.json)

Malformed(c) ==
    BodyArrived(c) /\ ~IsSuccessShape(c, net[c].body.json) /\ ~IsFailureShape(net[c].body.json)

NetworkFailure(c) == net[c].head = "err" \/ net[c].body.tag = "err"

BuilderFailed(c) == fut[c].result.tag = "err" /\ fut[c].result.err.kind = "builder"

TransportError(c) == NetworkFailure(c) \/ Malformed(c) \/ BuilderFailed(c)

\* the textual description of call c's transport error
TransportText(c) ==
    IF BuilderFailed(c) THEN <<"builder error">>
    ELSE IF net[c].head = "err"
         THEN <<"error sending request for url (">> \o UrlOf(c, id) \o <<")">>
    ELSE IF net[c].body.tag = "err" THEN <<"request or response body error">>
    ELSE <<"error decoding response body: ">> \o DecodeCause(net[c].body.json)

FirstFailureBody == IF Failure("info") THEN net["info"].body.json ELSE net["episodes"].body.json

\* C1: a feed request with no transport error and a Failure envelope on at
\* least one call is answered 404 Not Found with the message of the first error
\* entry, the container's failure ahead of the episodes' (and so never as a
\* transport error).
C1_FailureEnvelopeIs404 ==
    (Responded /\ IsFeedRequest /\ (\A c \in Calls : ~TransportError(c))
        /\ (\E c \in Calls : Failure(c)))
    => /\ Resp.status = 404
       /\ "text" \in DOMAIN Resp.body
       /\ Resp.body.text = FirstFailureBody.errors[1].message

\* C2: a feed request one of whose calls ended in a transport error is answered
\* 502 Bad Gateway with a non-empty body that is the description of a call's
\* transport error, also when the other call carries a Failure envelope.
C2_TransportErrorIs502 ==
    (Responded /\ IsFeedRequest /\ (\E c \in Calls : TransportError(c)))
    => /\ Resp.status = 502
       /\ "text" \in DOMAIN Resp.body
       /\ Len(Resp.body.text) > 0
       /\ \E c \in Calls : TransportError(c) /\ Resp.body.text = TransportText(c)

\* C3: a feed request both of whose calls return a Success payload is answered
\* 200 OK with Content-Type exactly application/rss+xml and the rendered feed
\* of that container and that episode list as body.
C3_SuccessIsRssXml ==
    (Responded /\ IsFeedRequest /\ Success("info") /\ Success("episodes"))
    => /\ Resp.status = 200
       /\ Resp.headers = {<<"content-type", "application/rss+xml">>}
       /\ "xml" \in DOMAIN Resp.body
       /\ Resp.body.xml = build_rss(strip_leading(req.path),
                                    DecodePodContainer(net["info"].body.json).val,
                                    DecodePodEpisodes(net["episodes"].body.json).val)

\* C4: a feed request is answered only after both calls have completed: when
\* the response is produced no call is still pending or cancelled (stated for
\* the requests in which both calls were issued, their clients built).
C4_JoinWaitsForBoth ==
    (Responded /\ IsFeedRequest /\ (\A c \in Calls : Len(sent[c]) = 1))
    => \A c \in Calls : fut[c].st = "done"

\* C5: GET / and every request of another method are answered 200 with the
\* fixed greeting and reach no upstream; a GET of any other path is a feed
\* request for the path without its leading slash; a request has at most one
\* reply, exactly one once it is answered, and no reply is an error result.
C5_Routing ==
    /\ Len(replies) = (IF Responded THEN 1 ELSE 0)
    /\ \A k \in DOMAIN replies : replies[k].tag = "ok"
    /\ (Responded /\ (req.method # "GET" \/ req.path = <<"/">>))
       => /\ Resp = [status |-> 200, headers |-> {}, body |-> [text |-> <<"Hello, World">>]]
          /\ \A c \in Calls : sent[c] = <<>> /\ fut[c].st = "unpolled"
          /\ renders = 0
    /\ (pc \in {"try_join", "responded"} /\ req.method = "GET" /\ req.path # <<"/">>)
       => /\ <<"/">> \o id = req.path
          /\ \A c \in Calls : \A k \in DOMAIN sent[c] :
                sent[c][k] = UrlOf(c, SubSeq(req.path, 2, Len(req.path)))
          /\ Responded => (Resp.status = 502 \/ "xml" \in DOMAIN Resp.body)
    /\ (pc = "try_join") => (req.method = "GET" /\ req.path # <<"/">>)

C5_Witness ==
    /\ Responded
    /\ req.method = "GET"
    /\ Len(req.path) = 3
    /\ id = <<"a", "/">>
    /\ Len(sent["info"]) = 1

\* C6: the renderer runs, and a 200 or an XML body is sent for a feed request,
\* only when both calls of that request completed with a Success payload; a
\* feed request's status is 200, 404 or 502.
C6_NoPartialFeed ==
    /\ renders \in {0, 1}
    /\ (renders > 0 \/ (Responded /\ IsFeedRequest
                         /\ (Resp.status = 200 \/ "xml" \in DOMAIN Resp.body)))
       => /\ \A c \in Calls : fut[c].st = "done" /\ Success(c) /\ Len(sent[c]) = 1
          /\ renders = 1
          /\ Responded /\ Resp.status = 200 /\ "xml" \in DOMAIN Resp.body
    /\ (Responded /\ IsFeedRequest) => Resp.status \in {200, 404, 502}

C6_Witness ==
    /\ Responded
    /\ IsFeedRequest
    /\ renders = 1
    /\ Resp.status = 200
    /\ Len(net["episodes"].body.json.data) = 2

FeedOk == Responded /\ IsFeedRequest /\ Resp.status = 200 /\ "xml" \in DOMAIN Resp.body

FeedItems == Resp.body.xml.items

WireEpisodes == net["episodes"].body.json.data

\* C8: the rendered channel has one item per episode of the list received, the
\* k-th item built from the k-th episode (title = titles.secondary,
\* description = synopses.long).
C8_ItemsInOrder ==
    FeedOk
    => /\ Len(FeedItems) = Len(WireEpisodes)
       /\ \A k \in 1..Len(WireEpisodes) :
            /\ FeedItems[k].title = WireEpisodes[k].titles.secondary
            /\ FeedItems[k].description = WireEpisodes[k].synopses.long

C8_Witness ==
    /\ FeedOk
    /\ Len(WireEpisodes) >= 2
    /\ WireEpisodes[1] = Episode3
    /\ WireEpisodes[2] = Episode1

HighOnly(e) ==
    [e EXCEPT !.download.quality_variants.low = e.download.quality_variants.high,
              !.download.quality_variants.medium = e.download.quality_variants.high]

\* C9: every item's enclosure has mime type audio/mpeg, the high variant's file
\* URL and, as its length, the high variant's file size in decimal; the item is
\* the one rendered from the episode with its low and medium variants replaced
\* by the high one.
C9_EnclosureIsHigh ==
    FeedOk
    => \A k \in 1..Len(WireEpisodes) :
        LET encl == FeedItems[k].enclosure
            high == WireEpisodes[k].download.quality_variants.high
        IN  /\ encl.mime_type = <<"audio/mpeg">>
            /\ encl.url = high.file_url
            /\ Len(encl.length) > 0
            /\ AllDigits(encl.length, 1, Len(encl.length))
            /\ Number(encl.length, 1, Len(encl.length)) = high.file_size
            /\ FeedItems[k] = Item(DecodePodEpisode(HighOnly(WireEpisodes[k])))

C9_Witness ==
    /\ FeedOk
    /\ \E k \in 1..Len(WireEpisodes) :
        LET q == WireEpisodes[k].download.quality_variants
        IN  /\ q.high.file_size # q.medium.file_size
            /\ q.high.file_size # q.low.file_size
            /\ q.high.file_url # q.medium.file_url
            /\ FeedItems[k].enclosure.length = <<"4", "0", "9", "6">>

Rfc2822(wd, d, mon, y, h, mi, sec, sign, oh, om) ==
    [weekday |-> wd, day |-> d, month |-> mon, year |-> y, hour |-> h, minute |-> mi,
     second |-> sec, sign |-> sign, offset_hours |-> oh, offset_minutes |-> om]

\* the sample dates that are date-with-offset timestamps, with their RFC 2822 parts
DatesWithOffset == {DateThu, DateSat, DateZulu}

ExpectedPubDate(d) ==
    CASE d = DateThu -> Rfc2822("Thu", 4, "Mar", 2021, 5, 6, 7, "+", 0, 0)
      [] d = DateSat -> Rfc2822("Sat", 29, "Feb", 2020, 23, 59, 59, "+", 1, 0)
      [] d = DateZulu -> Rfc2822("Tue", 31, "Dec", 2019, 0, 0, 0, "+", 0, 0)
      [] OTHER -> Rfc2822("Thu", 1, "Jan", 1970, 0, 0, 0, "+", 0, 0)

\* C10: the render completes whatever the dates are; an item whose release.date
\* is no date-with-offset timestamp has the Unix epoch at UTC as publication
\* date, and every other item has its own parsed date, both in RFC 2822 form.
C10_PubDateFallback ==
    /\ (Responded /\ IsFeedRequest /\ Success("info") /\ Success("episodes")) => FeedOk
    /\ FeedOk
       => \A k \in 1..Len(WireEpisodes) :
            /\ FeedItems[k].pub_date = ExpectedPubDate(WireEpisodes[k].release.date)
            /\ WireEpisodes[k].release.date \notin DatesWithOffset
               => FeedItems[k].pub_date = to_rfc2822(EpochUtc)

C10_Witness ==
    /\ FeedOk
    /\ Len(WireEpisodes) >= 2
    /\ WireEpisodes[1].release.date = DateNot
    /\ WireEpisodes[2].release.date = DateSat
    /\ FeedItems[1].pub_date.year = 1970
    /\ FeedItems[2].pub_date.weekday = "Sat"

====
